---- MODULE Spec2Model ----
(***************************************************************************)
(* Model of the Streamlit dashboard appProyectoFinal.py (and of the        *)
(* loader it shares with app.py): the cached CSV loader load_data, the     *)
(* module body that Streamlit re-runs on every interaction (defaults,      *)
(* session state, sidebar widgets, filter chain, charts), and the          *)
(* reset_filters callback.                                                 *)
(*                                                                         *)
(* Numbers are fixed point, in tenths (the text "12.5" is 125).            *)
(* A timestamp is [year, doy, ns]: calendar year, day of the year and the  *)
(* nanoseconds since midnight, ordered lexicographically.                  *)
(* A text the code searches in (Lugar, the "Lugar contiene" input) is a    *)
(* sequence of one-character strings.                                      *)
(***************************************************************************)
EXTENDS Integers, Sequences, FiniteSets, TLC

VARIABLES
    file,         \* conejos.csv on disk: [exists, decodes, header, rows]
    cache,        \* st.cache_data entries of load_data: <<>> or <<df>>
    nreads,       \* pd.read_csv calls made so far in this process
    tried,        \* encodings load_data tried in the last script run
    session,      \* st.session_state: widget key -> value
    chart_type,   \* value of the "Tipo de grafico" radio
    event,        \* what triggered the last script run
    pc,           \* how the last script run ended
    emitted,      \* UI elements the last script run emitted, in order
    df,           \* module global df of the last run
    globals,      \* module globals computed from df (lines 58-68)
    steps,        \* successive values of filtered_df (lines 129-149)
    filtered_df,  \* module global filtered_df at the end of the run
    df_year       \* df_year of the "Serie temporal" chart, when built

vars == <<file, cache, nreads, tried, session, chart_type, event, pc,
          emitted, df, globals, steps, filtered_df, df_year>>

----------------------------------------------------------------------------
\* Bounds of the model.

\* Largest number of data rows of the source file.
MaxRows == 2

\* pd.read_csv calls after which no further rerun is taken.
MaxReads == 6

----------------------------------------------------------------------------
\* Cell values.

NaNNum == [nan |-> TRUE, v |-> 0]
Num(n) == [nan |-> FALSE, v |-> n]

NaNStr == [nan |-> TRUE, v |-> <<>>]
Str(s) == [nan |-> FALSE, v |-> s]

NaT == [nan |-> TRUE, v |-> [year |-> 0, doy |-> 0, ns |-> 0]]
Ts(y, d, n) == [nan |-> FALSE, v |-> [year |-> y, doy |-> d, ns |-> n]]

\* Order of timestamps.
TsLe(a, b) ==
    \/ a.year < b.year
    \/ a.year = b.year /\ a.doy < b.doy
    \/ a.year = b.year /\ a.doy = b.doy /\ a.ns <= b.ns

\* pandas' default na_values, as far as the texts of the model go: read_csv
\* reads such a field as NaN.
NaMarkers == {"", "N/A"}

\* The numeric texts of the model and their values, in tenths.
NumericTexts == {"9.9", "-84.1", "12.5", "20", "27.5"}

ParseFloat(text) ==
    CASE text = "9.9" -> 99
      [] text = "-84.1" -> -841
      [] text = "12.5" -> 125
      [] text = "20" -> 200
      [] text = "27.5" -> 275

\* pd.to_numeric(column, errors="coerce") on one field of the file.
ToNumeric(text) ==
    IF text \in NaMarkers THEN NaNNum
    ELSE IF text \in NumericTexts THEN Num(ParseFloat(text))
    ELSE NaNNum

\* The date texts of the model that pandas parses.
DateTexts == {"2016-05-01", "2017-03-10", "2017-03-10 00:00:00.000000001"}

ParseDate(text) ==
    CASE text = "2016-05-01" -> Ts(2016, 122, 0)
      [] text = "2017-03-10" -> Ts(2017, 69, 0)
      [] text = "2017-03-10 00:00:00.000000001" -> Ts(2017, 69, 1)

\* pd.to_datetime(column, errors="coerce") on one field of the file.
ToDatetime(text) ==
    IF text \in NaMarkers THEN NaT
    ELSE IF text \in DateTexts THEN ParseDate(text)
    ELSE NaT

\* Series.astype(str) on one field read as text: NaN becomes the text nan.
AsTypeStrText(text) == IF text \in NaMarkers THEN "nan" ELSE text

\* read_csv on a Lugar field (a sequence of characters).
ReadLugar(chars) == IF chars = <<>> THEN NaNStr ELSE Str(chars)

\* Series.astype(str) on a Lugar cell.
AsTypeStr(cell) == IF cell.nan THEN <<"n", "a", "n">> ELSE cell.v

\* str.strip() on a column name of the model.
Strip(name) ==
    CASE name = " Fecha" -> "Fecha"
      [] name = "Altitud " -> "Altitud"
      [] OTHER -> name

----------------------------------------------------------------------------
\* The source file and the families of files the specifications start from.

San == <<"S", "a", "n">>
Rio == <<"R", "i", "o">>

RequiredColumns == {"Especie", "Latitud", "Longitud"}

\* Every sequence of at most MaxRows rows drawn from the set of rows R.
Tables(R) == UNION {[1..n -> R] : n \in 0..MaxRows}

File(exists, decodes, header, rows) ==
    [exists |-> exists, decodes |-> decodes, header |-> header, rows |-> rows]

\* Files whose rows differ in their coordinates, with and without the Lugar
\* column, that decode under any subset of the encodings, or do not exist.
LoadRows ==
    [Especie : {"S. dicei"}, Latitud : {"", "abc", "9.9"},
     Longitud : {"N/A", "abc", "-84.1"}, Lugar : {Rio},
     Fecha : {"2016-05-01"}, Altitud : {"20"}]

NoLugar(R) == {[r EXCEPT !.Lugar = <<>>] : r \in R}

LoadFiles ==
    {File(TRUE, d, RequiredColumns \cup {"Lugar", " Fecha", "Altitud "}, t) :
        d \in SUBSET {"utf-8", "latin1", "cp1252"}, t \in Tables(LoadRows)}
    \cup {File(TRUE, d, RequiredColumns \cup {" Fecha", "Altitud "}, t) :
        d \in SUBSET {"utf-8", "latin1", "cp1252"}, t \in Tables(NoLugar(LoadRows))}
    \cup {File(FALSE, {}, {}, <<>>)}

\* Files with valid coordinates whose rows differ in species, date and
\* altitude, with and without the optional Fecha and Altitud columns.
RangeRows ==
    [Especie : {"S. dicei", "S. gabbi"}, Latitud : {"9.9"},
     Longitud : {"-84.1"}, Lugar : {San},
     Fecha : {"", "2016-05-01", "2017-03-10"},
     Altitud : {"", "12.5", "20", "27.5"}]

NoFecha(R) == {[r EXCEPT !.Fecha = ""] : r \in R}
NoAltitud(R) == {[r EXCEPT !.Altitud = ""] : r \in R}

RangeFiles ==
    {File(TRUE, {"utf-8"}, RequiredColumns \cup {"Lugar", "Fecha", "Altitud"}, t) :
        t \in Tables(RangeRows)}
    \cup {File(TRUE, {"utf-8"}, RequiredColumns \cup {"Lugar", "Altitud"}, t) :
        t \in Tables(NoFecha(RangeRows))}
    \cup {File(TRUE, {"utf-8"}, RequiredColumns \cup {"Lugar", "Fecha"}, t) :
        t \in Tables(NoAltitud(RangeRows))}
    \cup {File(TRUE, {"utf-8"}, RequiredColumns \cup {"Lugar"}, t) :
        t \in Tables(NoAltitud(NoFecha(RangeRows)))}

\* Files with valid coordinates whose rows differ in species, place and
\* date.
LugarRows ==
    [Especie : {"S. dicei", "S. gabbi"}, Latitud : {"9.9"},
     Longitud : {"-84.1"}, Lugar : {<<>>, San, Rio},
     Fecha : {"2016-05-01", "2017-03-10 00:00:00.000000001"},
     Altitud : {"20"}]

LugarFiles ==
    {File(TRUE, {"utf-8"}, RequiredColumns \cup {"Lugar", "Fecha", "Altitud"}, t) :
        t \in Tables(LugarRows)}

----------------------------------------------------------------------------
\* load_data (lines 12-41).

Encodings == <<"utf-8", "latin1", "cp1252">>

\* Variant of ReadLoop without the break: every encoding is tried.
RECURSIVE ReadLoopNoBreak(_, _)
ReadLoopNoBreak(i, sofar) ==
    IF i > Len(Encodings)
    THEN [ok |-> \E j \in 1..Len(Encodings) : Encodings[j] \in file.decodes,
          tried |-> sofar]
    ELSE ReadLoopNoBreak(i + 1, Append(sofar, Encodings[i]))

\* The for/try/break/continue/else loop of lines 14-22, from the i-th
\* encoding on: the encodings tried and whether one of them read the file.
RECURSIVE ReadLoop(_, _)
ReadLoop(i, sofar) ==
    IF i > Len(Encodings)
    THEN [ok |-> FALSE, tried |-> sofar]
    ELSE IF Encodings[i] \in file.decodes
         THEN [ok |-> TRUE, tried |-> Append(sofar, Encodings[i])]
         ELSE ReadLoop(i + 1, Append(sofar, Encodings[i]))

\* Lines 25-36 on the i-th row of the file: the typed record of the frame.
\* idx is the row's index label, which every later selection keeps.
CleanRow(columns, raw, i) ==
    [idx |-> i - 1,
     Especie |-> AsTypeStrText(raw.Especie),
     Latitud |-> ToNumeric(raw.Latitud),
     Longitud |-> ToNumeric(raw.Longitud),
     Lugar |-> IF "Lugar" \in columns THEN ReadLugar(raw.Lugar) ELSE NaNStr,
     Fecha |-> IF "Fecha" \in columns THEN ToDatetime(raw.Fecha) ELSE NaT,
     Altitud |-> IF "Altitud" \in columns THEN ToNumeric(raw.Altitud) ELSE NaNNum]

\* Variant of DropNaCoords that looks at Latitud alone.
DropNaLatitudOnly(rows) == SelectSeq(rows, LAMBDA r : ~r.Latitud.nan)

\* df.dropna(subset=["Latitud", "Longitud"]) (line 39).
DropNaCoords(rows) ==
    SelectSeq(rows, LAMBDA r : ~r.Latitud.nan /\ ~r.Longitud.nan)

\* Lines 25-41: the frame load_data returns for a file that was read.
Clean(header, rows) ==
    LET columns == {Strip(h) : h \in header}
    IN [columns |-> columns,
        rows |-> DropNaCoords([i \in 1..Len(rows) |-> CleanRow(columns, rows[i], i)])]

EmptyFrame == [columns |-> {}, rows |-> <<>>]

\* Variant of CacheHit that never finds an entry.
NeverCached == FALSE

\* @st.cache_data (line 12): is there an entry for the call?
CacheHit == cache # <<>>

\* One call load_data("conejos.csv") under st.cache_data: a cached entry is
\* returned without running the body; otherwise the body runs, and only a
\* call that returns stores its result.
LoadData ==
    IF CacheHit
    THEN [outcome |-> "ok", df |-> cache[1], cache |-> cache,
          nreads |-> nreads, tried |-> <<>>]
    ELSE IF ~file.exists
    THEN [outcome |-> "crash", df |-> EmptyFrame, cache |-> cache,
          nreads |-> nreads + 1, tried |-> <<Encodings[1]>>]
    ELSE LET loop == ReadLoop(1, <<>>)
             frame == Clean(file.header, file.rows)
         IN IF loop.ok
            THEN [outcome |-> "ok", df |-> frame, cache |-> <<frame>>,
                  nreads |-> nreads + Len(loop.tried), tried |-> loop.tried]
            ELSE [outcome |-> "read_error", df |-> EmptyFrame, cache |-> cache,
                  nreads |-> nreads + Len(loop.tried), tried |-> loop.tried]

----------------------------------------------------------------------------
\* Module body, lines 58-68: the defaults computed from df.

\* The values of a sequence of rows under a column, NaN left out.
NotNa(rows, col) == {rows[i][col].v : i \in {j \in 1..Len(rows) : ~rows[j][col].nan}}

\* sorted(df["Especie"].dropna().unique().tolist()) (line 58), as a set.
SpeciesOptions(frame) == {frame.rows[i].Especie : i \in 1..Len(frame.rows)}

\* ("Fecha" in df.columns) and df["Fecha"].notna().any() (line 60).
HasFecha(frame) == "Fecha" \in frame.columns /\ NotNa(frame.rows, "Fecha") # {}

\* ("Altitud" in df.columns) and df["Altitud"].notna().any() (line 65).
HasAlt(frame) == "Altitud" \in frame.columns /\ NotNa(frame.rows, "Altitud") # {}

TsMin(S) == CHOOSE a \in S : \A b \in S : TsLe(a, b)
TsMax(S) == CHOOSE a \in S : \A b \in S : TsLe(b, a)
NumMin(S) == CHOOSE a \in S : \A b \in S : a <= b
NumMax(S) == CHOOSE a \in S : \A b \in S : b <= a

\* Timestamp.to_pydatetime(): a datetime has microseconds, the nanoseconds
\* below one microsecond are discarded.
ToPyDatetime(t) == [t EXCEPT !.ns = t.ns - (t.ns % 1000)]

\* int(x) on a float in tenths: the whole part, truncated towards zero.
IntOf(x) == IF x >= 0 THEN x \div 10 ELSE -((-x) \div 10)

NoGlobals ==
    [species_options |-> {}, has_fecha |-> FALSE, has_alt |-> FALSE,
     global_min_dt |-> NaT.v, global_max_dt |-> NaT.v,
     global_alt_min |-> 0, global_alt_max |-> 0]

\* Lines 58-68. A name the code leaves unbound (no date, no altitude) holds
\* a filler here and is never read.
Globals(frame) ==
    [species_options |-> SpeciesOptions(frame),
     has_fecha |-> HasFecha(frame),
     has_alt |-> HasAlt(frame),
     global_min_dt |-> IF HasFecha(frame)
                       THEN ToPyDatetime(TsMin(NotNa(frame.rows, "Fecha")))
                       ELSE NaT.v,
     global_max_dt |-> IF HasFecha(frame)
                       THEN ToPyDatetime(TsMax(NotNa(frame.rows, "Fecha")))
                       ELSE NaT.v,
     global_alt_min |-> IF HasAlt(frame)
                        THEN IntOf(NumMin(NotNa(frame.rows, "Altitud")))
                        ELSE 0,
     global_alt_max |-> IF HasAlt(frame)
                        THEN IntOf(NumMax(NotNa(frame.rows, "Altitud")))
                        ELSE 0]

----------------------------------------------------------------------------
\* Session state, lines 74-91.

\* ss with key k bound to value v.
Put(ss, k, v) == [x \in DOMAIN ss \cup {k} |-> IF x = k THEN v ELSE ss[x]]

\* One "if key not in st.session_state" statement.
SetDefault(ss, k, v) == IF k \in DOMAIN ss THEN ss ELSE Put(ss, k, v)

\* Lines 74-81.
InitSession(ss, g) ==
    LET s1 == SetDefault(ss, "species_filter", g.species_options)
        s2 == SetDefault(s1, "lugar_filter", <<>>)
        s3 == IF g.has_fecha
              THEN SetDefault(s2, "fecha_filter", <<g.global_min_dt, g.global_max_dt>>)
              ELSE s2
        s4 == IF g.has_alt
              THEN SetDefault(s3, "alt_filter", <<g.global_alt_min, g.global_alt_max>>)
              ELSE s3
    IN s4

\* Variant of reset_filters that leaves the text of "Lugar contiene".
ResetKeepsLugar(ss, g) ==
    LET s1 == Put(ss, "species_filter", g.species_options)
        s3 == IF g.has_fecha
              THEN Put(s1, "fecha_filter", <<g.global_min_dt, g.global_max_dt>>)
              ELSE s1
        s4 == IF g.has_alt
              THEN Put(s3, "alt_filter", <<g.global_alt_min, g.global_alt_max>>)
              ELSE s3
    IN s4

\* reset_filters (lines 83-89), on the module globals g it closes over.
reset_filters(ss, g) ==
    LET s1 == Put(ss, "species_filter", g.species_options)
        s2 == Put(s1, "lugar_filter", <<>>)
        s3 == IF g.has_fecha
              THEN Put(s2, "fecha_filter", <<g.global_min_dt, g.global_max_dt>>)
              ELSE s2
        s4 == IF g.has_alt
              THEN Put(s3, "alt_filter", <<g.global_alt_min, g.global_alt_max>>)
              ELSE s3
    IN s4

----------------------------------------------------------------------------
\* The filter chain, lines 129-149.

Lower(c) ==
    CASE c = "S" -> "s"
      [] c = "A" -> "a"
      [] c = "N" -> "n"
      [] c = "R" -> "r"
      [] OTHER -> c

\* re.compile(pat) on the patterns of the model: an opening parenthesis
\* that is never closed is an error.
ReCompiles(pat) == \A i \in 1..Len(pat) : pat[i] # "("

\* One pattern character against one character under re.IGNORECASE: a dot
\* matches any character, a letter matches itself in either case.
CharMatches(p, c) == p = "." \/ Lower(p) = Lower(c)

\* re.search(pat, text, re.IGNORECASE) is not None.
ReSearch(pat, text) ==
    \E off \in 0..(Len(text) - Len(pat)) :
        \A j \in 1..Len(pat) : CharMatches(pat[j], text[off + j])

\* filtered_df["Lugar"].astype(str).str.contains(lugar_text, case=False,
\* na=False) on one row (line 136): pat is a regular expression, and after
\* astype(str) no cell is NaN, so na=False decides nothing.
LugarContains(r, pat) == ReSearch(pat, AsTypeStr(r.Lugar))

\* Variant of FechaBetween that lets a missing date through.
FechaBetweenOrNaT(cell, lo, hi) == cell.nan \/ (TsLe(lo, cell.v) /\ TsLe(cell.v, hi))

\* Series.between(lo, hi, inclusive="both") on one Fecha cell.
FechaBetween(cell, lo, hi) == ~cell.nan /\ TsLe(lo, cell.v) /\ TsLe(cell.v, hi)

\* Series.between(lo, hi, inclusive="both") on one Altitud cell, lo and hi
\* whole numbers.
AltBetween(cell, lo, hi) == ~cell.nan /\ lo * 10 <= cell.v /\ cell.v <= hi * 10

\* bool(x) of a datetime: always true.
DatetimeTruthy(d) == TRUE

\* Variant of StepEspecie that keeps the species that are not selected.
StepEspecieInverted(rows, selected) ==
    IF selected # {}
    THEN SelectSeq(rows, LAMBDA r : r.Especie \notin selected)
    ELSE rows

\* Lines 131-132.
StepEspecie(rows, selected) ==
    IF selected # {}
    THEN SelectSeq(rows, LAMBDA r : r.Especie \in selected)
    ELSE rows

\* Does line 135-136 raise? KeyError without a Lugar column, re.error for a
\* pattern that does not compile.
LugarRaises(columns, text) ==
    text # <<>> /\ ("Lugar" \notin columns \/ ~ReCompiles(text))

\* Lines 134-137, when they do not raise.
StepLugar(rows, text) ==
    IF text # <<>>
    THEN SelectSeq(rows, LAMBDA r : LugarContains(r, text))
    ELSE rows

\* Lines 139-144.
StepFecha(rows, g, ss) ==
    IF g.has_fecha /\ DatetimeTruthy(ss["fecha_filter"][1])
                   /\ DatetimeTruthy(ss["fecha_filter"][2])
    THEN SelectSeq(rows, LAMBDA r :
            FechaBetween(r.Fecha, ss["fecha_filter"][1], ss["fecha_filter"][2]))
    ELSE rows

\* Lines 146-149.
StepAltitud(rows, g, ss) ==
    IF g.has_alt
    THEN SelectSeq(rows, LAMBDA r :
            AltBetween(r.Altitud, ss["alt_filter"][1], ss["alt_filter"][2]))
    ELSE rows

NoSteps ==
    [raised |-> FALSE, copy |-> <<>>, especie |-> <<>>, lugar |-> <<>>,
     fecha |-> <<>>, altitud |-> <<>>]

\* Lines 129-149: the successive values of filtered_df. When the Lugar step
\* raises, the later steps do not run.
FilterChain(frame, g, ss) ==
    LET f0 == frame.rows
        f1 == StepEspecie(f0, ss["species_filter"])
        bad == LugarRaises(frame.columns, ss["lugar_filter"])
        f2 == IF bad THEN <<>> ELSE StepLugar(f1, ss["lugar_filter"])
        f3 == IF bad THEN <<>> ELSE StepFecha(f2, g, ss)
        f4 == IF bad THEN <<>> ELSE StepAltitud(f3, g, ss)
    IN [raised |-> bad, copy |-> f0, especie |-> f1, lugar |-> f2,
        fecha |-> f3, altitud |-> f4]

----------------------------------------------------------------------------
\* The charts tab, lines 206-263.

ChartTypes == {"Conteo por especie", "Altitud por especie", "Serie temporal"}
DefaultChart == "Conteo por especie"

\* tmp = filtered_df.dropna(subset=["Fecha"]) (line 245).
DropNaFecha(rows) == SelectSeq(rows, LAMBDA r : ~r.Fecha.nan)

\* The rows of tmp.groupby("Año").size().reset_index(name="Conteo") whose
\* year is in Y, by ascending year (lines 246-247).
RECURSIVE GroupYears(_, _)
GroupYears(tmp, Y) ==
    IF Y = {} THEN <<>>
    ELSE LET y == CHOOSE a \in Y : \A b \in Y : a <= b
         IN <<[Anio |-> y,
               Conteo |-> Cardinality({i \in 1..Len(tmp) : tmp[i].Fecha.v.year = y})]>>
            \o GroupYears(tmp, Y \ {y})

DfYear(rows) ==
    LET tmp == DropNaFecha(rows)
    IN GroupYears(tmp, {tmp[i].Fecha.v.year : i \in 1..Len(tmp)})

NoDfYear == [built |-> FALSE, rows |-> <<>>]

\* What the selected chart emits (lines 212-263).
ChartElement(chart, g, rows) ==
    CASE chart = "Conteo por especie" -> "plotly_chart:bar"
      [] chart = "Altitud por especie" ->
            IF g.has_alt THEN "plotly_chart:box" ELSE "info:no_altitud"
      [] chart = "Serie temporal" ->
            IF g.has_fecha
            THEN IF DfYear(rows) = <<>>
                 THEN "info:no_fechas_validas"
                 ELSE "plotly_chart:line"
            ELSE "info:no_fecha"

----------------------------------------------------------------------------
\* One run of the script (the module body, lines 44-340), from the session
\* state ss and the radio value chart the run starts with.

Header == <<"title", "markdown", "markdown">>

\* Lines 71, 91-123.
Sidebar(g) ==
    <<"sidebar.header", "sidebar.button", "sidebar.multiselect",
      "sidebar.text_input">>
    \o (IF g.has_fecha THEN <<"sidebar.slider:fecha">> ELSE <<>>)
    \o (IF g.has_alt THEN <<"sidebar.slider:alt">> ELSE <<>>)

\* Lines 156-340.
Body(chart, g, rows) ==
    <<"tabs", "metric", "metric", "metric", "metric", "markdown", "markdown",
      "dataframe", "radio", ChartElement(chart, g, rows), "plotly_chart:map",
      "markdown", "markdown", "markdown", "markdown", "caption">>

\* Variant of IsEmpty that never reports an empty frame.
NeverEmpty(rows) == FALSE

\* DataFrame.empty (lines 53 and 151).
IsEmpty(rows) == rows = <<>>

Stopped(load, ss, how, shown) ==
    [cache |-> load.cache, nreads |-> load.nreads, tried |-> load.tried,
     session |-> ss, chart_type |-> DefaultChart, pc |-> how, emitted |-> shown,
     df |-> load.df, globals |-> NoGlobals, steps |-> NoSteps,
     filtered_df |-> <<>>, df_year |-> NoDfYear]

Script(ss, chart) ==
    LET load == LoadData
    IN  IF load.outcome = "crash"
        THEN Stopped(load, ss, "crash", <<"exception">>)
        ELSE IF load.outcome = "read_error"
        THEN Stopped(load, ss, "read_error", <<"error:read">>)
        ELSE IF IsEmpty(load.df.rows)
        THEN Stopped(load, ss, "empty_df", Header \o <<"warning:no_coords">>)
        ELSE
        LET g == Globals(load.df)
            ss1 == InitSession(ss, g)
            chain == FilterChain(load.df, g, ss1)
            rest == [Stopped(load, ss1, "crash", <<>>) EXCEPT
                        !.globals = g, !.steps = chain]
        IN  IF chain.raised
            THEN [rest EXCEPT !.emitted = Header \o Sidebar(g) \o <<"exception">>]
            ELSE IF IsEmpty(chain.altitud)
            THEN [rest EXCEPT !.pc = "no_match",
                     !.emitted = Header \o Sidebar(g) \o <<"warning:no_match">>]
            ELSE [rest EXCEPT !.pc = "done",
                     !.chart_type = chart,
                     !.filtered_df = chain.altitud,
                     !.emitted = Header \o Sidebar(g) \o Body(chart, g, chain.altitud),
                     !.df_year = IF chart = "Serie temporal" /\ g.has_fecha
                                 THEN [built |-> TRUE, rows |-> DfYear(chain.altitud)]
                                 ELSE NoDfYear]

\* The state after a run that ended as r, triggered by ev.
Commit(r, ev) ==
    /\ cache' = r.cache
    /\ nreads' = r.nreads
    /\ tried' = r.tried
    /\ session' = r.session
    /\ chart_type' = r.chart_type
    /\ pc' = r.pc
    /\ emitted' = r.emitted
    /\ df' = r.df
    /\ globals' = r.globals
    /\ steps' = r.steps
    /\ filtered_df' = r.filtered_df
    /\ df_year' = r.df_year
    /\ event' = ev
    /\ UNCHANGED file

Shown(element) == \E i \in 1..Len(emitted) : emitted[i] = element

----------------------------------------------------------------------------
\* What the user can enter.

\* Texts typed into "Lugar contiene".
LugarTexts == {<<>>, <<"A", "N">>, <<"S", "(">>, <<"S", ".", "n">>}

\* step of the altitude slider (line 121).
AltStep == 10

\* Positions of the altitude slider: min_value plus whole steps, and
\* max_value.
AltStops(g) ==
    {g.global_alt_min + k * AltStep :
        k \in 0..((g.global_alt_max - g.global_alt_min) \div AltStep)}
    \cup {g.global_alt_max}

\* Positions of the date slider the model takes: min_value and max_value.
FechaStops(g) == {g.global_min_dt, g.global_max_dt}

----------------------------------------------------------------------------
\* Actions: each is one trigger followed by the whole rerun of the script.

\* The page is opened: the first run of the session.
Open ==
    /\ pc = "init"
    /\ Commit(Script(session, chart_type), "first")

\* A rerun without any change ("Rerun" in the Streamlit menu).
Rerun ==
    /\ pc # "init"
    /\ nreads < MaxReads
    /\ Commit(Script(session, chart_type), "rerun")

\* "Resetear filtros" is clicked: the on_click callback, then the rerun.
ClickReset ==
    /\ Shown("sidebar.button")
    /\ Commit(Script(reset_filters(session, globals), chart_type), "reset")

SelectSpecies ==
    /\ Shown("sidebar.multiselect")
    /\ \E S \in SUBSET globals.species_options :
          Commit(Script(Put(session, "species_filter", S), chart_type), "widget")

TypeLugar ==
    /\ Shown("sidebar.text_input")
    /\ \E t \in LugarTexts :
          Commit(Script(Put(session, "lugar_filter", t), chart_type), "widget")

SlideFecha ==
    /\ Shown("sidebar.slider:fecha")
    /\ \E a, b \in FechaStops(globals) :
          /\ TsLe(a, b)
          /\ Commit(Script(Put(session, "fecha_filter", <<a, b>>), chart_type), "widget")

SlideAltitud ==
    /\ Shown("sidebar.slider:alt")
    /\ \E a, b \in AltStops(globals) :
          /\ a <= b
          /\ Commit(Script(Put(session, "alt_filter", <<a, b>>), chart_type), "widget")

PickChart ==
    /\ Shown("radio")
    /\ \E c \in ChartTypes :
          Commit(Script(session, c), "widget")

Next ==
    \/ Open
    \/ Rerun
    \/ ClickReset
    \/ SelectSpecies
    \/ TypeLugar
    \/ SlideFecha
    \/ SlideAltitud
    \/ PickChart

\* The process starts with nothing cached and an empty session.
InitWith(files) ==
    /\ file \in files
    /\ cache = <<>>
    /\ nreads = 0
    /\ tried = <<>>
    /\ session = <<>>
    /\ chart_type = DefaultChart
    /\ event = "none"
    /\ pc = "init"
    /\ emitted = <<>>
    /\ df = EmptyFrame
    /\ globals = NoGlobals
    /\ steps = NoSteps
    /\ filtered_df = <<>>
    /\ df_year = NoDfYear

Init == InitWith(RangeFiles)
Spec == Init /\ [][Next]_vars

InitLoad == InitWith(LoadFiles)
SpecLoad == InitLoad /\ [][Next]_vars

InitLugar == InitWith(LugarFiles)
SpecLugar == InitLugar /\ [][Next]_vars

----------------------------------------------------------------------------
\* Helpers of the properties.

\* The index labels of a sequence of rows.
Idx(rows) == {rows[i].idx : i \in 1..Len(rows)}

\* The rows of a sequence, as a set.
RowSet(rows) == {rows[i] : i \in 1..Len(rows)}

\* load_data has returned a frame in this process.
Loaded == cache # <<>>

\* The last run reached the end of the filter chain without raising.
HasView == pc \in {"done", "no_match"}

\* sub occurs in text, letter case ignored.
ContainsIgnoreCase(text, sub) ==
    \E off \in 0..(Len(text) - Len(sub)) :
        \A j \in 1..Len(sub) : Lower(sub[j]) = Lower(text[off + j])

RECURSIVE SumConteo(_)
SumConteo(rows) ==
    IF rows = <<>> THEN 0 ELSE rows[1].Conteo + SumConteo(Tail(rows))

----------------------------------------------------------------------------
\* C1. load_data returns exactly the source rows whose Latitud and Longitud
\* are both present and numeric: each returned row has both coordinates
\* non-null, a row with a missing or non-numeric coordinate is dropped
\* without an exception, and the row count is the number of valid rows.

ValidCoords(raw) == raw.Latitud \in NumericTexts /\ raw.Longitud \in NumericTexts

ValidSourceRows == {i \in 1..Len(file.rows) : ValidCoords(file.rows[i])}

C1_LoadKeepsExactlyValidRows ==
    (pc # "init" /\ file.exists /\ file.decodes # {}) =>
        /\ Loaded
        /\ df = cache[1]
        /\ \A i \in 1..Len(df.rows) :
              ~df.rows[i].Latitud.nan /\ ~df.rows[i].Longitud.nan
        /\ Idx(df.rows) = {i - 1 : i \in ValidSourceRows}
        /\ Len(df.rows) = Cardinality(ValidSourceRows)

\* A two-row file with a non-numeric latitude and a valid row was loaded.
C1_Witness ==
    /\ Loaded
    /\ Len(file.rows) = 2
    /\ file.rows[1].Latitud = "abc"
    /\ Idx(df.rows) = {1}

----------------------------------------------------------------------------
\* C5. load_data tries utf-8, latin1, cp1252 in that order and stops at the
\* first that reads the file; when all three fail to decode it emits the
\* read error and halts the run: it returns no frame and nothing is raised.

FirstDecodable ==
    CHOOSE i \in 1..Len(Encodings) :
        /\ Encodings[i] \in file.decodes
        /\ \A j \in 1..(i - 1) : Encodings[j] \notin file.decodes

C5_EncodingFallback ==
    (file.exists /\ tried # <<>>) =>
        /\ \A i \in 1..Len(tried) : tried[i] = Encodings[i]
        /\ file.decodes # {} =>
              /\ Len(tried) = FirstDecodable
              /\ Loaded
        /\ file.decodes = {} =>
              /\ tried = Encodings
              /\ ~Loaded
              /\ pc = "read_error"
              /\ emitted = <<"error:read">>

\* utf-8 failed, latin1 read the file and cp1252 was not tried.
C5_Witness ==
    /\ tried = <<"utf-8", "latin1">>
    /\ "cp1252" \in file.decodes
    /\ Loaded

----------------------------------------------------------------------------
\* C7. Once load_data has returned, every later run gets the same frame
\* without another read of the file, and the cached entry is never dropped.

C7_CacheIsStable ==
    [][Loaded => (cache' = cache /\ nreads' = nreads /\ df' = cache[1])]_vars

\* A rerun after a load that took two reads.
C7_Witness ==
    /\ Loaded
    /\ event = "rerun"
    /\ nreads = 2
    /\ df = cache[1]
    /\ df.rows # <<>>

----------------------------------------------------------------------------
\* C4. The three conditions that end a run early.

\* Every encoding failed to decode the file.
Unreadable == file.exists /\ file.decodes = {}

\* The frame load_data returned has no row.
NoValidCoords == Loaded /\ df.rows = <<>>

\* The filter chain ran to its end and kept no row.
NothingMatches ==
    Loaded /\ df.rows # <<>> /\ ~steps.raised /\ steps.altitud = <<>>

SidebarElements ==
    {"sidebar.header", "sidebar.button", "sidebar.multiselect",
     "sidebar.text_input", "sidebar.slider:fecha", "sidebar.slider:alt"}

\* C4 as stated. In every run, each of the three conditions emits its own
\* message and halts the run, and the run emits nothing but that message.
C4_OnlyTheMessage ==
    pc # "init" =>
        /\ Unreadable => emitted = <<"error:read">>
        /\ NoValidCoords => emitted = <<"warning:no_coords">>
        /\ NothingMatches => emitted = <<"warning:no_match">>

\* C4 amended. Each of the three conditions emits its own message as the
\* last element of the run; no tab, table, chart, map or caption is emitted.
\* Before the message come: nothing for the read error; the title and the
\* two introductory texts for the empty dataset; those and the sidebar
\* filters for the empty filtered view.
C4_MessageEndsTheRun ==
    pc # "init" =>
        /\ Unreadable => pc = "read_error" /\ emitted = <<"error:read">>
        /\ NoValidCoords =>
              /\ pc = "empty_df"
              /\ emitted[Len(emitted)] = "warning:no_coords"
              /\ \A i \in 1..(Len(emitted) - 1) : emitted[i] \in {"title", "markdown"}
        /\ NothingMatches =>
              /\ pc = "no_match"
              /\ emitted[Len(emitted)] = "warning:no_match"
              /\ \A i \in 1..(Len(emitted) - 1) :
                    emitted[i] \in {"title", "markdown"} \cup SidebarElements
              /\ Shown("sidebar.multiselect") /\ Shown("sidebar.text_input")

\* A run in which a text typed into "Lugar contiene" matches no record.
C4_Witness ==
    /\ NothingMatches
    /\ pc = "no_match"
    /\ session["lugar_filter"] # <<>>
    /\ emitted[1] = "title"

----------------------------------------------------------------------------
\* The criteria as the specification defines them, on one row of df.

SpeciesCriterion(r) ==
    session["species_filter"] = {} \/ r.Especie \in session["species_filter"]

LocationCriterion(r) ==
    session["lugar_filter"] = <<>>
    \/ (~r.Lugar.nan /\ ContainsIgnoreCase(r.Lugar.v, session["lugar_filter"]))

DateCriterion(r) ==
    ~globals.has_fecha
    \/ (/\ ~r.Fecha.nan
        /\ TsLe(session["fecha_filter"][1], r.Fecha.v)
        /\ TsLe(r.Fecha.v, session["fecha_filter"][2]))

AltitudeCriterion(r) ==
    ~globals.has_alt
    \/ (/\ ~r.Altitud.nan
        /\ session["alt_filter"][1] * 10 <= r.Altitud.v
        /\ r.Altitud.v <= session["alt_filter"][2] * 10)

\* C2. The filtered view is exactly the set of canonical records that
\* satisfy all active criteria: species when the selection is not empty,
\* location when the text is not empty, date when has_date, altitude when
\* has_altitude.
C2_ViewIsConjunction ==
    HasView =>
        Idx(steps.altitud) =
            {r.idx : r \in {x \in RowSet(df.rows) :
                /\ SpeciesCriterion(x)
                /\ LocationCriterion(x)
                /\ DateCriterion(x)
                /\ AltitudeCriterion(x)}}

\* C3. For a non-empty filter text the location step keeps exactly the
\* records whose location contains the text, letter case ignored; a record
\* without location is never kept; the step never raises.
C3_LocationStep ==
    (Loaded /\ df.rows # <<>> /\ pc # "init" /\ session["lugar_filter"] # <<>>) =>
        /\ ~steps.raised
        /\ Idx(steps.lugar) =
              {r.idx : r \in {x \in RowSet(steps.especie) : LocationCriterion(x)}}

----------------------------------------------------------------------------
\* The view the filter chain yields for df under another session state.
ViewSize(ss) == Len(FilterChain(df, globals, ss).altitud)

\* C6. Monotonicity, with the other criteria as they are: (1) a non-empty
\* species selection enlarged never yields fewer records; (2) a date range
\* narrowed never yields more records; (3) nor does an altitude range
\* narrowed.
C6_Monotone ==
    HasView =>
        /\ session["species_filter"] # {} =>
              \A S \in SUBSET globals.species_options :
                  session["species_filter"] \subseteq S =>
                      ViewSize(Put(session, "species_filter", S)) >= Len(steps.altitud)
        /\ globals.has_fecha =>
              \A a, b \in FechaStops(globals) :
                  (/\ TsLe(session["fecha_filter"][1], a)
                   /\ TsLe(a, b)
                   /\ TsLe(b, session["fecha_filter"][2])) =>
                      ViewSize(Put(session, "fecha_filter", <<a, b>>)) <= Len(steps.altitud)
        /\ globals.has_alt =>
              \A a, b \in AltStops(globals) :
                  (/\ session["alt_filter"][1] <= a
                   /\ a <= b
                   /\ b <= session["alt_filter"][2]) =>
                      ViewSize(Put(session, "alt_filter", <<a, b>>)) <= Len(steps.altitud)

\* One of two species is selected and the other has a record; the date and
\* altitude ranges can each be narrowed to lose a record.
C6_Witness ==
    /\ pc = "done"
    /\ Cardinality(session["species_filter"]) = 1
    /\ ViewSize(Put(session, "species_filter", globals.species_options))
          > Len(filtered_df)
    /\ globals.has_fecha /\ globals.has_alt
    /\ \E a \in FechaStops(globals) :
          ViewSize(Put(session, "fecha_filter", <<a, a>>)) < Len(filtered_df)
    /\ \E a \in AltStops(globals) :
          ViewSize(Put(session, "alt_filter", <<a, a>>)) < Len(filtered_df)

----------------------------------------------------------------------------
\* C8. After reset_filters every filter key holds its default (all species
\* options, the empty text, (global_min_dt, global_max_dt) when has_fecha,
\* (global_alt_min, global_alt_max) when has_alt) and the key of an absent
\* feature stays untouched; a run without reset never overwrites a key that
\* is already in the session state.

AfterReset ==
    event = "reset" =>
        /\ session["species_filter"] = globals.species_options
        /\ session["lugar_filter"] = <<>>
        /\ IF globals.has_fecha
           THEN session["fecha_filter"] = <<globals.global_min_dt, globals.global_max_dt>>
           ELSE "fecha_filter" \notin DOMAIN session
        /\ IF globals.has_alt
           THEN session["alt_filter"] = <<globals.global_alt_min, globals.global_alt_max>>
           ELSE "alt_filter" \notin DOMAIN session

\* The keys of the session state whose value the step changes.
ChangedKeys == {k \in DOMAIN session : k \notin DOMAIN session' \/ session'[k] # session[k]}

KeysKept ==
    /\ event' = "rerun" => ChangedKeys = {}
    /\ event' = "widget" => Cardinality(ChangedKeys) <= 1

C8_ResetAndInit == [](AfterReset) /\ [][KeysKept]_vars

\* A reset in a dataset with dates and without altitude that shows records.
C8_Witness ==
    /\ event = "reset"
    /\ pc = "done"
    /\ globals.has_fecha
    /\ ~globals.has_alt
    /\ Cardinality(globals.species_options) = 2

----------------------------------------------------------------------------
\* C9. On the first run and right after reset_filters the filtered view
\* contains every canonical record that has a date (when has_fecha) and an
\* altitude (when has_alt).
C9_DefaultsExcludeNothing ==
    (event \in {"first", "reset"} /\ pc \notin {"read_error", "empty_df"}) =>
        /\ HasView
        /\ \A i \in 1..Len(df.rows) :
              (/\ globals.has_fecha => ~df.rows[i].Fecha.nan
               /\ globals.has_alt => ~df.rows[i].Altitud.nan)
                  => df.rows[i].idx \in Idx(steps.altitud)

----------------------------------------------------------------------------
\* C10. When has_fecha, every record of the filtered view has a date; so
\* whenever the year chart is built its table is not empty and its counts
\* add up to the size of the view, and the "no valid dates" message is
\* never emitted.
C10_ViewHasDates ==
    /\ (globals.has_fecha /\ HasView) =>
          \A i \in 1..Len(steps.altitud) : ~steps.altitud[i].Fecha.nan
    /\ df_year.built =>
          /\ df_year.rows # <<>>
          /\ SumConteo(df_year.rows) = Len(filtered_df)
    /\ ~Shown("info:no_fechas_validas")

\* The year chart of a dataset with dates, one of whose records has no
\* date and is not in the view.
C10_Witness ==
    /\ pc = "done"
    /\ df_year.built
    /\ \E i \in 1..Len(df.rows) : df.rows[i].Fecha.nan
    /\ Len(filtered_df) < Len(df.rows)

====
